---------------------------- MODULE Spec2Model ----------------------------
(***************************************************************************)
(* A model of the two scripts of plugins/reflex/scripts:                   *)
(*                                                                         *)
(*   ingest.py          chunk_text (the paragraph chunker), and the batch  *)
(*                      driver main / process_file / ingest_to_qdrant      *)
(*   langfuse-trace.py  main / send_trace (the trace forwarder)            *)
(*                                                                         *)
(* A text is a sequence of one-character strings.  Three specifications    *)
(* share the variables: SpecChunk runs chunk_text on a text drawn from a   *)
(* bounded set, SpecIngest runs main over a collected list of files, and   *)
(* SpecTrace runs the forwarder once.  Each leaves the variables of the    *)
(* other two at their idle values.                                         *)
(***************************************************************************)
EXTENDS Integers, Sequences, FiniteSets, TLC

VARIABLES
    \* ---- chunk_text (ingest.py 286-337)
    text,           \* the argument text
    chunk_size,     \* the argument chunk_size
    overlap,        \* the argument overlap
    paragraphs,     \* the local paragraphs (line 303)
    idx,            \* position of the for loop of line 309 in paragraphs
    chunks,         \* the local chunks: records [content, word_count]
    current,        \* the local current: the buffered paragraphs
    current_words,  \* the local current_words
    cpc,            \* where chunk_text stands: "split", "loop", "flush", "done"
    current_ix,     \* history: for each element of current, its index in paragraphs
    chunk_ix,       \* history: for each element of chunks, the indices it was built from
    \* ---- main, process_file, ingest_to_qdrant (ingest.py 344-557)
    missing_lib,    \* environment: the PDF parsing library cannot be imported
    files,          \* main's list files: records [ext, bytes]
    fidx,           \* position of the for loop of line 530 in files
    results,        \* main's list results
    points,         \* ingest_to_qdrant's list points, as the point ids
    bi,             \* ingest_to_qdrant's batch offset i of line 421
    coll_exists,    \* the vector store: the target collection exists
    stored,         \* the vector store: the ids of the collection's points
    summary,        \* the totals main prints at lines 550-557
    exit_code,      \* the process's exit code, -1 while it runs
    mpc,            \* where main stands
    calls,          \* history: the client.upsert calls made
    runs,           \* history: the ingest_to_qdrant calls that built their points
    \* ---- langfuse-trace.py
    langfuse_installed, \* environment: the langfuse package can be imported
    stdin,          \* what the caller pipes in
    public_key,     \* environment: LANGFUSE_PUBLIC_KEY
    secret_key,     \* environment: LANGFUSE_SECRET_KEY
    client_fails,   \* environment: the call of the tracing client that raises
    tool_data,      \* main's local tool_data (line 110)
    backend_calls,  \* the calls made to the tracing client, in order
    output,         \* what the process has written to stdout and stderr
    trace_exit,     \* the process's exit code, -1 while it runs
    tpc             \* where the forwarder stands

chunkVars == <<text, chunk_size, overlap, paragraphs, idx, chunks, current,
               current_words, cpc, current_ix, chunk_ix>>

ingestVars == <<missing_lib, files, fidx, results, points, bi, coll_exists,
                stored, summary, exit_code, mpc, calls, runs>>

traceVars == <<langfuse_installed, stdin, public_key, secret_key, client_fails,
               tool_data, backend_calls, output, trace_exit, tpc>>

vars == <<chunkVars, ingestVars, traceVars>>

---------------------------------------------------------------------------
(* Bounds of the inputs.                                                   *)

\* longest text of the exhaustive family (every text over Alphabet)
MaxLen == 5
\* most paragraphs of a text of the structured family
MaxParas == 4
\* most words of a paragraph of the structured family
MaxWords == 3
\* largest chunk_size tried (0 .. MaxChunkSize)
MaxChunkSize == 4
\* largest overlap tried (0 .. MaxOverlap)
MaxOverlap == 3
\* most files main collects
MaxFiles == 2
\* number of distinct file contents
MaxContents == 2
\* most full batches of a file's points (its largest chunk count is
\* MaxFullBatches * BatchSize + 1)
MaxFullBatches == 1
\* longest run of whitespace before and after the document on stdin
MaxPad == 1

---------------------------------------------------------------------------
(* Sequences and characters.                                               *)

Last(s) == s[Len(s)]

SetMax(S) == CHOOSE m \in S : \A x \in S : x <= m

\* Python's str whitespace as far as the texts here use it: what \s of the
\* regular expression, str.strip() and str.split() all treat as space.
IsSpace(c) == c \in {" ", "\n", "\t"}

\* index of the first character at or after i that is not whitespace, or
\* Len(s) + 1: where a run of \s* starting at i stops
RECURSIVE RunEnd(_, _)
RunEnd(s, i) ==
    IF i > Len(s) \/ ~IsSpace(s[i]) THEN i ELSE RunEnd(s, i + 1)

\* A match of the mutated pattern \n at i (a split on every line break).
MatchEndSingleNewline(s, i) ==
    IF s[i] = "\n" THEN i ELSE 0

\* The end of the match of r'\n\s*\n' that starts at i, or 0 when the
\* pattern does not match there: \s* is greedy, so the match runs to the
\* last line break of the whitespace run that follows s[i].
MatchEnd(s, i) ==
    IF s[i] # "\n" THEN 0
    ELSE LET e  == RunEnd(s, i + 1)
             ks == {k \in (i + 1)..(e - 1) : s[k] = "\n"}
         IN  IF ks = {} THEN 0 ELSE SetMax(ks)

\* re.split(r'\n\s*\n', text): the pieces between the leftmost,
\* non-overlapping matches; start is where the piece being read began and
\* i the position the scan has reached.
RECURSIVE ReSplit(_, _, _)
ReSplit(s, start, i) ==
    IF i > Len(s) THEN <<SubSeq(s, start, Len(s))>>
    ELSE LET m == MatchEnd(s, i)
         IN  IF m > 0
             THEN <<SubSeq(s, start, i - 1)>> \o ReSplit(s, m + 1, m + 1)
             ELSE ReSplit(s, start, i + 1)

\* str.strip(): without the leading and the trailing whitespace
RECURSIVE LStrip(_)
LStrip(s) ==
    IF s # <<>> /\ IsSpace(s[1]) THEN LStrip(Tail(s)) ELSE s

RECURSIVE RStrip(_)
RStrip(s) ==
    IF s # <<>> /\ IsSpace(Last(s)) THEN RStrip(SubSeq(s, 1, Len(s) - 1)) ELSE s

Strip(s) == RStrip(LStrip(s))

\* len(p.split()): the number of maximal runs of non-whitespace
WordCount(p) ==
    Cardinality({i \in 1..Len(p) :
                    ~IsSpace(p[i]) /\ (i = 1 \/ IsSpace(p[i - 1]))})

RECURSIVE StripNonEmpty(_)
StripNonEmpty(pieces) ==
    IF pieces = <<>> THEN <<>>
    ELSE LET p == Strip(pieces[1])
         IN  (IF p # <<>> THEN <<p>> ELSE <<>>) \o StripNonEmpty(Tail(pieces))

\* line 303: [p.strip() for p in re.split(r'\n\s*\n', text) if p.strip()]
SplitParagraphs(s) == StripNonEmpty(ReSplit(s, 1, 1))

\* "\n\n".join(current)
RECURSIVE JoinParas(_)
JoinParas(ps) ==
    IF ps = <<>> THEN <<>>
    ELSE IF Len(ps) = 1 THEN ps[1]
    ELSE ps[1] \o <<"\n", "\n">> \o JoinParas(Tail(ps))

\* the dict appended at lines 314-317 and 332-335
MakeChunk(cur, words) == [content |-> JoinParas(cur), word_count |-> words]

---------------------------------------------------------------------------
(* The input texts.                                                        *)

Alphabet == {"a", " ", "\n"}

\* every text over Alphabet of at most n characters
TextsUpTo(n) == UNION {[1..k -> Alphabet] : k \in 0..n}

Letters == <<"a", "b", "c", "d", "e", "f">>

\* n copies of the one-letter word c, joined by joiner
RECURSIVE Words(_, _, _)
Words(c, n, joiner) ==
    IF n = 1 THEN <<c>> ELSE <<c>> \o joiner \o Words(c, n - 1, joiner)

\* The text whose i-th paragraph has ws[i] words, the paragraphs separated
\* by sep; with distinct the i-th paragraph is spelt with the i-th letter,
\* otherwise all are spelt alike.
RECURSIVE BuildText(_, _, _, _, _)
BuildText(ws, i, sep, joiner, distinct) ==
    IF i > Len(ws) THEN <<>>
    ELSE Words(IF distinct THEN Letters[i] ELSE "a", ws[i], joiner)
         \o (IF i < Len(ws) THEN sep ELSE <<>>)
         \o BuildText(ws, i + 1, sep, joiner, distinct)

Profiles == UNION {[1..k -> 1..MaxWords] : k \in 1..MaxParas}

\* Three spellings of each profile: distinct paragraphs separated by an
\* empty line; equal paragraphs separated by a line holding a space; and
\* distinct paragraphs, one word to a line, separated by two empty lines
\* and an indent.
StructuredTexts ==
    { BuildText(ws, 1, <<"\n", "\n">>, <<" ">>, TRUE) : ws \in Profiles }
    \cup { BuildText(ws, 1, <<"\n", " ", "\n">>, <<" ">>, FALSE) : ws \in Profiles }
    \cup { BuildText(ws, 1, <<"\n", "\n", "\n", " ">>, <<"\n">>, TRUE) : ws \in Profiles }

\* the example of the specification's section 8
ParaOne ==
    <<"P","a","r","a"," ","o","n","e"," ","w","o","r","d"," ","w","o","r","d",".">>

ParaTwo ==
    <<"P","a","r","a"," ","t","w","o"," ","w","o","r","d"," ","w","o","r","d",".">>

ParaThree ==
    <<"P","a","r","a"," ","t","h","r","e","e",".">>

ExampleText ==
    ParaOne \o <<"\n", "\n">> \o ParaTwo \o <<"\n", "\n">> \o ParaThree

Example == [text |-> ExampleText, chunk_size |-> 6, overlap |-> 3]

Texts == TextsUpTo(MaxLen) \cup StructuredTexts

---------------------------------------------------------------------------
(* chunk_text.                                                             *)

\* chunk_text is not running
IdleChunk ==
    /\ text = <<>>
    /\ chunk_size = 0
    /\ overlap = 0
    /\ paragraphs = <<>>
    /\ idx = 0
    /\ chunks = <<>>
    /\ current = <<>>
    /\ current_words = 0
    /\ cpc = "idle"
    /\ current_ix = <<>>
    /\ chunk_ix = <<>>

\* main is not running
IdleIngest ==
    /\ missing_lib = FALSE
    /\ files = <<>>
    /\ fidx = 0
    /\ results = <<>>
    /\ points = <<>>
    /\ bi = 0
    /\ coll_exists = FALSE
    /\ stored = {}
    /\ summary = [total_chunks |-> 0, success |-> 0, errors |-> 0, files |-> 0]
    /\ exit_code = -1
    /\ mpc = "idle"
    /\ calls = <<>>
    /\ runs = <<>>

\* the forwarder is not running
IdleTrace ==
    /\ langfuse_installed = TRUE
    /\ stdin = <<>>
    /\ public_key = "unset"
    /\ secret_key = "unset"
    /\ client_fails = "none"
    /\ tool_data = [type |-> "none"]
    /\ backend_calls = <<>>
    /\ output = <<>>
    /\ trace_exit = -1
    /\ tpc = "idle"

StartChunk ==
    /\ \/ /\ text \in Texts
          /\ chunk_size \in 0..MaxChunkSize
          /\ overlap \in 0..MaxOverlap
       \/ /\ text = Example.text
          /\ chunk_size = Example.chunk_size
          /\ overlap = Example.overlap
    /\ paragraphs = <<>>
    /\ idx = 0
    /\ chunks = <<>>
    /\ current = <<>>
    /\ current_words = 0
    /\ cpc = "split"
    /\ current_ix = <<>>
    /\ chunk_ix = <<>>

InitChunk == StartChunk /\ IdleIngest /\ IdleTrace

\* lines 303-307
Split ==
    /\ cpc = "split"
    /\ paragraphs' = SplitParagraphs(text)
    /\ idx' = 1
    /\ cpc' = IF SplitParagraphs(text) = <<>> THEN "flush" ELSE "loop"
    /\ UNCHANGED <<text, chunk_size, overlap, chunks, current, current_words,
                   current_ix, chunk_ix>>
    /\ UNCHANGED <<ingestVars, traceVars>>

\* A close test that looks at the buffer alone, before the paragraph is added.
ClosesBufferOnly(words, para_words, cur) ==
    words > chunk_size /\ cur # <<>>

\* A close test with >= for >.
ClosesAtLimit(words, para_words, cur) ==
    words + para_words >= chunk_size /\ cur # <<>>

\* A close test that looks at the paragraph alone, not at the buffer's words.
ClosesOnParagraph(words, para_words, cur) ==
    para_words > chunk_size /\ cur # <<>>

\* line 313: current_words + para_words > chunk_size and current
Closes(words, para_words, cur) ==
    words + para_words > chunk_size /\ cur # <<>>

\* A carry test with < for <=.
CarriesStrict(cur) ==
    cur # <<>> /\ WordCount(Last(cur)) < overlap

\* line 320: current and len(current[-1].split()) <= overlap
Carries(cur) ==
    cur # <<>> /\ WordCount(Last(cur)) <= overlap

\* A reset that keeps the first paragraph of the closed chunk.
KeptFirst(s) == <<s[1]>>

\* line 321: [current[-1]], the new buffer of a carry; applied to current
\* and to its history alike
Kept(s) == <<Last(s)>>

\* A loop body that appends the paragraph only when no chunk was closed.
LoopBodyAppendInElse ==
    /\ cpc = "loop"
    /\ idx <= Len(paragraphs)
    /\ LET para       == paragraphs[idx]
           para_words == WordCount(para)
           close      == Closes(current_words, para_words, current)
           carry      == close /\ Carries(current)
           cur0       == IF ~close THEN current
                         ELSE IF carry THEN Kept(current) ELSE <<>>
           ix0        == IF ~close THEN current_ix
                         ELSE IF carry THEN Kept(current_ix) ELSE <<>>
           words0     == IF ~close THEN current_words
                         ELSE IF carry THEN WordCount(Last(current)) ELSE 0
       IN  /\ chunks' = IF close
                        THEN Append(chunks, MakeChunk(current, current_words))
                        ELSE chunks
           /\ chunk_ix' = IF close THEN Append(chunk_ix, current_ix) ELSE chunk_ix
           /\ current' = IF close THEN cur0 ELSE Append(cur0, para)
           /\ current_ix' = IF close THEN ix0 ELSE Append(ix0, idx)
           /\ current_words' = IF close THEN words0 ELSE words0 + para_words
    /\ idx' = idx + 1
    /\ cpc' = IF idx = Len(paragraphs) THEN "flush" ELSE "loop"
    /\ UNCHANGED <<text, chunk_size, overlap, paragraphs>>
    /\ UNCHANGED <<ingestVars, traceVars>>

\* lines 309-328: one iteration of the for loop
LoopBody ==
    /\ cpc = "loop"
    /\ idx <= Len(paragraphs)
    /\ LET para       == paragraphs[idx]
           para_words == WordCount(para)
           close      == Closes(current_words, para_words, current)
           carry      == close /\ Carries(current)
           cur0       == IF ~close THEN current
                         ELSE IF carry THEN Kept(current) ELSE <<>>
           ix0        == IF ~close THEN current_ix
                         ELSE IF carry THEN Kept(current_ix) ELSE <<>>
           words0     == IF ~close THEN current_words
                         ELSE IF carry THEN WordCount(Last(current)) ELSE 0
       IN  /\ chunks' = IF close
                        THEN Append(chunks, MakeChunk(current, current_words))
                        ELSE chunks
           /\ chunk_ix' = IF close THEN Append(chunk_ix, current_ix) ELSE chunk_ix
           /\ current' = Append(cur0, para)
           /\ current_ix' = Append(ix0, idx)
           /\ current_words' = words0 + para_words
    /\ idx' = idx + 1
    /\ cpc' = IF idx = Len(paragraphs) THEN "flush" ELSE "loop"
    /\ UNCHANGED <<text, chunk_size, overlap, paragraphs>>
    /\ UNCHANGED <<ingestVars, traceVars>>

\* lines 330-337: the last chunk, and the return
Flush ==
    /\ cpc = "flush"
    /\ chunks' = IF current # <<>>
                 THEN Append(chunks, MakeChunk(current, current_words))
                 ELSE chunks
    /\ chunk_ix' = IF current # <<>> THEN Append(chunk_ix, current_ix) ELSE chunk_ix
    /\ cpc' = "done"
    /\ UNCHANGED <<text, chunk_size, overlap, paragraphs, idx, current,
                   current_words, current_ix>>
    /\ UNCHANGED <<ingestVars, traceVars>>

NextChunk == Split \/ LoopBody \/ Flush

SpecChunk == InitChunk /\ [][NextChunk]_vars

---------------------------------------------------------------------------
(* main, process_file and ingest_to_qdrant.                                *)

\* line 420
BatchSize == 100

Min(a, b) == IF a <= b THEN a ELSE b

\* the extensions of EXTRACTORS (lines 235-263) told apart here: one whose
\* extractor imports a parsing library, one whose extractor does not
Exts == {".pdf", ".txt"}

\* lines 57-61: extract_pdf imports fitz, and exits when it cannot
NeedsLib(ext) == ext = ".pdf"

\* The files a path may hold, each its extension and its content (the
\* bytes, by name): a text file of every content, and a PDF whose bytes are
\* those of the first text file.
FileRecs ==
    {[ext |-> ".txt", bytes |-> b] : b \in 1..MaxContents}
    \cup {[ext |-> ".pdf", bytes |-> 1]}

\* the chunk counts chunk_text is taken to return for a non-blank text:
\* exactly one full batch, and one point past 1 .. MaxFullBatches batches
ChunkCounts ==
    {BatchSize} \cup {k * BatchSize + 1 : k \in 1..MaxFullBatches}

\* more than any chunk count
IdStride == (MaxFullBatches + 1) * BatchSize

\* line 390: hashlib.md5(file_path.read_bytes()).hexdigest()[:12].  md5 is
\* not computed: a digest is a number that depends on the bytes alone, and
\* md5 is taken not to collide on the contents at hand, so the digest is
\* numbered by the content it is the digest of.
FileHash(bytes) == bytes

\* line 394: hashlib.md5(f"{file_hash}_{i}".encode()).hexdigest(): a number
\* that depends on the pair (file_hash, i) alone and, md5 again taken not
\* to collide, differs for different pairs
PointId(file_hash, i) == file_hash * IdStride + i

\* lines 392-417: the ids of points, in enumerate order (i = 0, 1, ...)
BuildPoints(bytes, n) == [j \in 1..n |-> PointId(FileHash(bytes), j - 1)]

\* A slice one point too long: points[i:i + batch_size + 1].
BatchEndInclusive(i, n) == Min(i + BatchSize + 1, n)

\* line 422: points[i:i + batch_size] holds the offsets i .. BatchEnd - 1
BatchEnd(i, n) == Min(i + BatchSize, n)

\* A store whose write replaces the collection's points.
Replaced(st, ids) == ids

\* line 423: what client.upsert makes of the collection: points are added
\* or overwritten by id, none is deleted
Upserted(st, ids) == st \cup ids

RECURSIVE SumChunks(_)
\* line 550: sum(r.get("chunks", 0) for r in results)
SumChunks(rs) ==
    IF rs = <<>> THEN 0
    ELSE (IF "chunks" \in DOMAIN rs[1] THEN rs[1].chunks ELSE 0)
         + SumChunks(Tail(rs))

\* lines 551-552: the number of results of one status
CountStatus(rs, st) == Cardinality({i \in 1..Len(rs) : rs[i].status = st})

\* main starts against a store that does not hold the collection yet
StartIngest ==
    /\ missing_lib \in BOOLEAN
    /\ files = <<>>
    /\ fidx = 0
    /\ results = <<>>
    /\ points = <<>>
    /\ bi = 0
    /\ coll_exists = FALSE
    /\ stored = {}
    /\ summary = [total_chunks |-> 0, success |-> 0, errors |-> 0, files |-> 0]
    /\ exit_code = -1
    /\ mpc = "collect"
    /\ calls = <<>>
    /\ runs = <<>>

InitIngest == IdleChunk /\ StartIngest /\ IdleTrace

\* lines 505-507: the path is one supported file
CollectFile ==
    /\ mpc = "collect"
    /\ \E f \in FileRecs : files' = <<f>>
    /\ fidx' = 1
    /\ mpc' = "extract"
    /\ UNCHANGED <<missing_lib, results, points, bi, coll_exists, stored,
                   summary, exit_code, calls, runs>>
    /\ UNCHANGED <<chunkVars, traceVars>>

\* lines 511-515: the path is a directory holding supported files
CollectDir ==
    /\ mpc = "collect"
    /\ \E k \in 1..MaxFiles : files' \in [1..k -> FileRecs]
    /\ fidx' = 1
    /\ mpc' = "extract"
    /\ UNCHANGED <<missing_lib, results, points, bi, coll_exists, stored,
                   summary, exit_code, calls, runs>>
    /\ UNCHANGED <<chunkVars, traceVars>>

\* lines 508-510, 517-522: an unsupported file, a directory without
\* supported files, or no such path: sys.exit(1)
CollectNothing ==
    /\ mpc = "collect"
    /\ exit_code' = 1
    /\ mpc' = "exited"
    /\ UNCHANGED <<missing_lib, files, fidx, results, points, bi, coll_exists,
                   stored, summary, calls, runs>>
    /\ UNCHANGED <<chunkVars, traceVars>>

\* lines 538 and 541-545: results.append, and the for loop moves on
Record(r) ==
    /\ results' = Append(results, r)
    /\ fidx' = fidx + 1
    /\ points' = <<>>
    /\ bi' = 0
    /\ mpc' = "extract"

\* the dict of lines 541-545
ErrorResult == [file |-> fidx, status |-> "error", error |-> "e"]

\* line 443 into lines 57-61: the extractor's library is missing, it calls
\* sys.exit(1); SystemExit is no Exception, so line 539 does not catch it
ExtractExits ==
    /\ mpc = "extract"
    /\ fidx <= Len(files)
    /\ NeedsLib(files[fidx].ext) /\ missing_lib
    /\ exit_code' = 1
    /\ mpc' = "exited"
    /\ UNCHANGED <<missing_lib, files, fidx, results, points, bi, coll_exists,
                   stored, summary, calls, runs>>
    /\ UNCHANGED <<chunkVars, traceVars>>

\* the extractor of the file at hand gets past its import
CanExtract ==
    /\ mpc = "extract"
    /\ fidx <= Len(files)
    /\ ~(NeedsLib(files[fidx].ext) /\ missing_lib)

\* line 443 raising an Exception (an unreadable or malformed file), caught
\* at line 539
ExtractRaises ==
    /\ CanExtract
    /\ Record(ErrorResult)
    /\ UNCHANGED <<missing_lib, files, coll_exists, stored, summary, exit_code,
                   calls, runs>>
    /\ UNCHANGED <<chunkVars, traceVars>>

\* lines 445-447: the extracted text is blank
ExtractEmpty ==
    /\ CanExtract
    /\ Record([file |-> fidx, status |-> "empty", chunks |-> 0])
    /\ UNCHANGED <<missing_lib, files, coll_exists, stored, summary, exit_code,
                   calls, runs>>
    /\ UNCHANGED <<chunkVars, traceVars>>

\* lines 443-451 and 365-417: the text is chunked into n chunks, the
\* collection is made if absent, the chunks are embedded and the points built
Prepare ==
    /\ CanExtract
    /\ \E n \in ChunkCounts :
          /\ points' = BuildPoints(files[fidx].bytes, n)
          /\ runs' = Append(runs, [file |-> fidx, bytes |-> files[fidx].bytes,
                                   n |-> n])
    /\ bi' = 0
    /\ coll_exists' = TRUE
    /\ mpc' = "upsert"
    /\ UNCHANGED <<missing_lib, files, fidx, results, stored, summary,
                   exit_code, calls>>
    /\ UNCHANGED <<chunkVars, traceVars>>

\* lines 365-390 raising (the store unreachable, the embedding failing, the
\* file unreadable), before or after the collection was made; caught at 539
PrepareRaises ==
    /\ CanExtract
    /\ coll_exists' \in {coll_exists, TRUE}
    /\ Record(ErrorResult)
    /\ UNCHANGED <<missing_lib, files, stored, summary, exit_code, calls, runs>>
    /\ UNCHANGED <<chunkVars, traceVars>>

\* the ids of the batch at offset bi
BatchIds == {points[j] : j \in (bi + 1)..BatchEnd(bi, Len(points))}

\* the record of the client.upsert call at offset bi
Call(ok) ==
    [file |-> fidx, lo |-> bi, hi |-> BatchEnd(bi, Len(points)),
     n |-> Len(points), ok |-> ok]

\* lines 421-424: one batch is upserted
UpsertBatch ==
    /\ mpc = "upsert"
    /\ bi < Len(points)
    /\ stored' = Upserted(stored, BatchIds)
    /\ calls' = Append(calls, Call(TRUE))
    /\ bi' = bi + BatchSize
    /\ UNCHANGED <<missing_lib, files, fidx, results, points, coll_exists,
                   summary, exit_code, mpc, runs>>
    /\ UNCHANGED <<chunkVars, traceVars>>

\* line 423 raising, the store having kept nothing of the batch; nothing
\* catches it before line 539
UpsertRaises ==
    /\ mpc = "upsert"
    /\ bi < Len(points)
    /\ stored' = stored
    /\ calls' = Append(calls, Call(FALSE))
    /\ Record(ErrorResult)
    /\ UNCHANGED <<missing_lib, files, coll_exists, summary, exit_code, runs>>
    /\ UNCHANGED <<chunkVars, traceVars>>

\* lines 426, 462-467 and 538: every batch is in, the count is returned
IngestReturns ==
    /\ mpc = "upsert"
    /\ bi >= Len(points)
    /\ Record([file |-> fidx, status |-> "success", chunks |-> Len(points),
               format |-> files[fidx].ext])
    /\ UNCHANGED <<missing_lib, files, coll_exists, stored, summary, exit_code,
                   calls, runs>>
    /\ UNCHANGED <<chunkVars, traceVars>>

\* lines 547-557: the loop is over, the totals are printed, main returns
Summarize ==
    /\ mpc = "extract"
    /\ fidx > Len(files)
    /\ summary' = [total_chunks |-> SumChunks(results),
                   success |-> CountStatus(results, "success"),
                   errors |-> CountStatus(results, "error"),
                   files |-> Len(results)]
    /\ exit_code' = 0
    /\ mpc' = "summary"
    /\ UNCHANGED <<missing_lib, files, fidx, results, points, bi, coll_exists,
                   stored, calls, runs>>
    /\ UNCHANGED <<chunkVars, traceVars>>

NextIngest ==
    \/ CollectFile
    \/ CollectDir
    \/ CollectNothing
    \/ ExtractExits
    \/ ExtractRaises
    \/ ExtractEmpty
    \/ Prepare
    \/ PrepareRaises
    \/ UpsertBatch
    \/ UpsertRaises
    \/ IngestReturns
    \/ Summarize

SpecIngest == InitIngest /\ [][NextIngest]_vars

---------------------------------------------------------------------------
(* langfuse-trace.py: the import, main and send_trace.                     *)

\* A JSON document is written by name: stdin is a sequence of whitespace
\* characters and documents.
Docs == {"{bad", "[1]", "{}", "{record}", "{record, tool_response: str}"}

\* the whitespace runs of at most n characters
Pads(n) == UNION {[1..k -> {" ", "\n"}] : k \in 0..n}

\* nothing, one document, or two documents on one line
Bodies == {<<>>} \cup {<<d>> : d \in Docs} \cup {<<"{}", " ", "{}">>}

Stdins ==
    {pre \o body \o post : pre \in Pads(MaxPad), post \in Pads(MaxPad),
                           body \in Bodies}

\* os.environ.get(name): None ("unset"), the empty string, or a key
EnvVals == {"unset", "", "key"}

\* the calls of the tracing client, in the order of lines 66, 76, 91, 94
ClientCalls == <<"Langfuse", "start_span", "end", "flush">>

FailModes == {"none"} \cup {ClientCalls[i] : i \in 1..Len(ClientCalls)}

\* line 110: json.loads accepts one well-formed document
Parses(raw) == Len(raw) = 1 /\ raw[1] \in Docs \ {"{bad"}

\* line 110: the value json.loads returns, as its type and the type of its
\* member tool_response
Loaded(doc) ==
    CASE doc = "[1]" -> [type |-> "list", tool_response |-> "absent"]
      [] doc = "{}" -> [type |-> "dict", tool_response |-> "absent"]
      [] doc = "{record}" -> [type |-> "dict", tool_response |-> "dict"]
      [] doc = "{record, tool_response: str}" ->
            [type |-> "dict", tool_response |-> "str"]

\* lines 40 and 43: data.get of a value that is no dict, and
\* tool_response.get of a member that is no dict, raise AttributeError;
\* an absent member defaults to {}
ParseRaises(data) ==
    data.type # "dict" \/ data.tool_response \notin {"absent", "dict"}

\* the truth value of os.environ.get's result
Truthy(v) == v \notin {"unset", ""}

\* line 62, negated: not (not public_key or not secret_key)
KeysConfigured(pk, sk) == ~(~Truthy(pk) \/ ~Truthy(sk))

\* the exception classes raised here; all derive from Exception
Exceptions == {"JSONDecodeError", "AttributeError", "UnicodeDecodeError",
               "ClientError"}

\* A handler for decoding errors only.
CatchesDecodeErrors(cls) == cls \in {"JSONDecodeError", "UnicodeDecodeError"}

\* lines 98 and 116: except Exception
CatchesException(cls) == cls \in Exceptions

\* line 113: except json.JSONDecodeError
CatchesJSONDecodeError(cls) == cls = "JSONDecodeError"

\* main returns, the interpreter exits with code 0
Returns ==
    /\ tpc' = "done"
    /\ trace_exit' = 0
    /\ output' = output

\* an exception leaves main: the interpreter prints the traceback and
\* exits with code 1
Uncaught ==
    /\ tpc' = "done"
    /\ trace_exit' = 1
    /\ output' = Append(output, "traceback")

\* an exception of class cls raised in main's try block (lines 105-111)
RaisedInMain(cls) ==
    IF CatchesJSONDecodeError(cls) \/ CatchesException(cls)
    THEN Returns
    ELSE Uncaught

\* an exception of class cls raised in send_trace's try block (lines 65-96):
\* caught at line 98, send_trace returns and main with it; else it goes on
\* to main's handlers
RaisedInSendTrace(cls) ==
    IF CatchesException(cls) THEN Returns ELSE RaisedInMain(cls)

\* the forwarder is started by its caller
StartTrace ==
    /\ langfuse_installed \in BOOLEAN
    /\ stdin \in Stdins
    /\ public_key \in EnvVals
    /\ secret_key \in EnvVals
    /\ client_fails \in FailModes
    /\ tool_data = [type |-> "none"]
    /\ backend_calls = <<>>
    /\ output = <<>>
    /\ trace_exit = -1
    /\ tpc = "import"

InitTrace == IdleChunk /\ IdleIngest /\ StartTrace

\* lines 21-25: from langfuse import Langfuse, or sys.exit(0)
Import ==
    /\ tpc = "import"
    /\ IF langfuse_installed
       THEN tpc' = "read" /\ UNCHANGED <<trace_exit, output>>
       ELSE Returns
    /\ UNCHANGED <<langfuse_installed, stdin, public_key, secret_key,
                   client_fails, tool_data, backend_calls>>
    /\ UNCHANGED <<chunkVars, ingestVars>>

\* lines 106-108: raw_input = sys.stdin.read().strip(), return if empty
ReadStdin ==
    /\ tpc = "read"
    /\ IF Strip(stdin) = <<>>
       THEN Returns
       ELSE tpc' = "loads" /\ UNCHANGED <<trace_exit, output>>
    /\ UNCHANGED <<langfuse_installed, stdin, public_key, secret_key,
                   client_fails, tool_data, backend_calls>>
    /\ UNCHANGED <<chunkVars, ingestVars>>

\* line 106 raising: stdin does not decode
ReadRaises ==
    /\ tpc = "read"
    /\ RaisedInMain("UnicodeDecodeError")
    /\ UNCHANGED <<langfuse_installed, stdin, public_key, secret_key,
                   client_fails, tool_data, backend_calls>>
    /\ UNCHANGED <<chunkVars, ingestVars>>

\* line 110: tool_data = json.loads(raw_input)
Loads ==
    /\ tpc = "loads"
    /\ LET raw_input == Strip(stdin)
       IN  IF Parses(raw_input)
           THEN /\ tool_data' = Loaded(raw_input[1])
                /\ tpc' = "keys"
                /\ UNCHANGED <<trace_exit, output>>
           ELSE /\ RaisedInMain("JSONDecodeError")
                /\ UNCHANGED tool_data
    /\ UNCHANGED <<langfuse_installed, stdin, public_key, secret_key,
                   client_fails, backend_calls>>
    /\ UNCHANGED <<chunkVars, ingestVars>>

\* lines 58-63: send_trace returns unless both keys are there
CheckKeys ==
    /\ tpc = "keys"
    /\ IF KeysConfigured(public_key, secret_key)
       THEN tpc' = "client" /\ UNCHANGED <<trace_exit, output>>
       ELSE Returns
    /\ UNCHANGED <<langfuse_installed, stdin, public_key, secret_key,
                   client_fails, tool_data, backend_calls>>
    /\ UNCHANGED <<chunkVars, ingestVars>>

\* One call of the tracing client inside send_trace's try block: it is
\* made, and raises if it is the one that fails; else send_trace goes on to
\* next, or returns after the last.
ClientCall(call, next) ==
    /\ backend_calls' = Append(backend_calls, call)
    /\ IF client_fails = call
       THEN RaisedInSendTrace("ClientError")
       ELSE IF next = "done"
            THEN Returns
            ELSE tpc' = next /\ UNCHANGED <<trace_exit, output>>
    /\ UNCHANGED <<langfuse_installed, stdin, public_key, secret_key,
                   client_fails, tool_data>>
    /\ UNCHANGED <<chunkVars, ingestVars>>

\* lines 66-70: langfuse = Langfuse(...)
Construct == tpc = "client" /\ ClientCall("Langfuse", "parse")

\* lines 76-90: span = langfuse.start_span(...)
StartSpan == tpc = "span" /\ ClientCall("start_span", "end")

\* line 91: span.end()
SpanEnd == tpc = "end" /\ ClientCall("end", "flush")

\* line 94: langfuse.flush(), the last statement of send_trace
FlushClient == tpc = "flush" /\ ClientCall("flush", "done")

\* line 72: parsed = parse_tool_data(tool_data)
ParseToolData ==
    /\ tpc = "parse"
    /\ IF ParseRaises(tool_data)
       THEN RaisedInSendTrace("AttributeError")
       ELSE tpc' = "span" /\ UNCHANGED <<trace_exit, output>>
    /\ UNCHANGED <<langfuse_installed, stdin, public_key, secret_key,
                   client_fails, tool_data, backend_calls>>
    /\ UNCHANGED <<chunkVars, ingestVars>>

NextTrace ==
    \/ Import
    \/ ReadStdin
    \/ ReadRaises
    \/ Loads
    \/ CheckKeys
    \/ Construct
    \/ ParseToolData
    \/ StartSpan
    \/ SpanEnd
    \/ FlushClient

SpecTrace == InitTrace /\ [][NextTrace]_vars

---------------------------------------------------------------------------
(* Properties of chunk_text.                                               *)

\* the join of paragraphs by one blank line, as the specification words a
\* chunk's content
RECURSIVE BlankLineJoin(_)
BlankLineJoin(ps) ==
    IF ps = <<>> THEN <<>>
    ELSE IF Len(ps) = 1 THEN ps[1]
    ELSE ps[1] \o <<"\n", "\n">> \o BlankLineJoin(Tail(ps))

\* the paragraphs of the text at the positions ix
ParasAt(ix) == [j \in 1..Len(ix) |-> paragraphs[ix[j]]]

\* the positions of the paragraphs chunk k was built from
Placed(k) == {chunk_ix[k][j] : j \in 1..Len(chunk_ix[k])}

\* chunk k was seeded with the last paragraph of chunk k - 1
Carried(k) == k > 1 /\ chunk_ix[k][1] = Last(chunk_ix[k - 1])

\* the recorded positions are those of the content returned
IxFaithful ==
    /\ Len(chunk_ix) = Len(chunks)
    /\ \A k \in 1..Len(chunks) :
          /\ \A j \in 1..Len(chunk_ix[k]) : chunk_ix[k][j] \in 1..Len(paragraphs)
          /\ chunks[k].content = BlankLineJoin(ParasAt(chunk_ix[k]))

RECURSIVE Flatten(_)
Flatten(ss) == IF ss = <<>> THEN <<>> ELSE ss[1] \o Flatten(Tail(ss))

\* the text holds a line break followed, after whitespace only, by another
HasBlankLine(s) ==
    \E i \in 1..Len(s) : \E j \in (i + 1)..Len(s) :
        /\ s[i] = "\n"
        /\ s[j] = "\n"
        /\ \A k \in (i + 1)..(j - 1) : IsSpace(s[k])

\* C1: every chunk's content is the blank-line join of a contiguous run of
\* one or more whole paragraphs of the text, so that no paragraph (one
\* longer than chunk_size included) has its words divided between chunks.
C1_ParagraphAligned ==
    \A k \in 1..Len(chunks) :
        \E lo \in 1..Len(paragraphs) : \E hi \in lo..Len(paragraphs) :
            chunks[k].content = BlankLineJoin(SubSeq(paragraphs, lo, hi))

\* chunk_text has returned several chunks, one of several paragraphs, and
\* some paragraph is longer than chunk_size
C1_Witness ==
    /\ cpc = "done"
    /\ Len(chunks) >= 2
    /\ \E k \in 1..Len(chunks) : Len(chunk_ix[k]) >= 2
    /\ \E i \in 1..Len(paragraphs) : WordCount(paragraphs[i]) > chunk_size

\* C2: the paragraphs of chunk 1, chunk 2, ... in order, without the
\* leading paragraph of each chunk that was carried forward from the chunk
\* before it, are exactly the non-empty paragraphs of the text, in order.
C2_Reconstructs ==
    cpc = "done" =>
        /\ IxFaithful
        /\ Flatten([k \in 1..Len(chunks) |->
                      LET ps == SplitParagraphs(chunks[k].content)
                      IN  IF Carried(k) THEN Tail(ps) ELSE ps])
           = SplitParagraphs(text)

\* a returned list with a carried and a fresh chunk start, of a text of at
\* least three paragraphs
C2_Witness ==
    /\ cpc = "done"
    /\ Len(paragraphs) >= 3
    /\ \E k \in 2..Len(chunks) : Carried(k)
    /\ \E k \in 2..Len(chunks) : ~Carried(k)

\* C3: consecutive chunks share at most one paragraph occurrence; chunk
\* k+1 starts with the last paragraph of chunk k exactly when that
\* paragraph has at most overlap words, and otherwise with the first
\* paragraph not yet placed; no paragraph but the last of the closed chunk
\* is carried; no paragraph of more than overlap words is in two chunks.
C3_OverlapRule ==
    /\ IxFaithful
    /\ \A k \in 1..(Len(chunks) - 1) :
          LET a == chunk_ix[k]
              b == chunk_ix[k + 1]
              w == WordCount(paragraphs[Last(a)])
          IN  /\ Cardinality(Placed(k) \cap Placed(k + 1)) <= 1
              /\ (b[1] = Last(a)) <=> (w <= overlap)
              /\ w > overlap =>
                    b[1] = 1 + SetMax(UNION {Placed(j) : j \in 1..k})
              /\ \A j \in 1..(Len(a) - 1) : a[j] \notin Placed(k + 1)
    /\ \A i \in 1..Len(paragraphs) :
          WordCount(paragraphs[i]) > overlap =>
              Cardinality({k \in 1..Len(chunks) : i \in Placed(k)}) <= 1

\* a returned list where one boundary carries a paragraph of exactly
\* overlap words and another boundary carries nothing
C3_Witness ==
    /\ cpc = "done"
    /\ overlap > 0
    /\ \E k \in 2..Len(chunks) :
          Carried(k) /\ WordCount(paragraphs[chunk_ix[k][1]]) = overlap
    /\ \E k \in 2..Len(chunks) : ~Carried(k) /\ Len(chunk_ix[k - 1]) >= 2

\* C4 as stated: the chunk that holds a paragraph of more than chunk_size
\* words holds no other paragraph; empty input yields no chunk.
C4_OversizedAlone ==
    cpc = "done" =>
        /\ \A k \in 1..Len(chunks) : \A j \in 1..Len(chunk_ix[k]) :
              WordCount(paragraphs[chunk_ix[k][j]]) > chunk_size =>
                  Len(chunk_ix[k]) = 1
        /\ text = <<>> => chunks = <<>>

\* C4 as amended: a chunk that holds a paragraph of more than chunk_size
\* words is that paragraph alone, or exactly two paragraphs of which the
\* first was carried forward from the chunk before (so has at most overlap
\* words); with overlap = 0 it is always alone; empty input yields no chunk.
C4_OversizedAloneOrAfterCarry ==
    cpc = "done" =>
        /\ IxFaithful
        /\ \A k \in 1..Len(chunks) : \A j \in 1..Len(chunk_ix[k]) :
              WordCount(paragraphs[chunk_ix[k][j]]) > chunk_size =>
                  \/ Len(chunk_ix[k]) = 1
                  \/ /\ Len(chunk_ix[k]) = 2
                     /\ Carried(k)
                     /\ WordCount(paragraphs[chunk_ix[k][1]]) <= overlap
                     /\ overlap > 0
        /\ text = <<>> => chunks = <<>>

\* an oversized paragraph returned in one chunk with the short paragraph
\* before it, which was carried forward
C4_Witness ==
    /\ cpc = "done"
    /\ \E k \in 2..Len(chunks) :
          /\ Len(chunk_ix[k]) = 2
          /\ Carried(k)
          /\ WordCount(paragraphs[chunk_ix[k][2]]) > chunk_size
          /\ WordCount(paragraphs[chunk_ix[k][1]]) <= chunk_size

\* C8 as stated: a text with no blank-line separator gives exactly one
\* chunk, which holds the whole text (up to the whitespace around it).
C8_OneChunk ==
    (cpc = "done" /\ ~HasBlankLine(text)) =>
        /\ Len(chunks) = 1
        /\ chunks[1].content = Strip(text)

\* C8 as amended: a text with no blank-line separator and at least one
\* character that is not whitespace gives exactly one chunk; its content is
\* the text without leading and trailing whitespace and its word_count the
\* number of words of the text.  (A text of whitespace only gives no chunk.)
C8_OneChunkOfNonBlankText ==
    (cpc = "done" /\ ~HasBlankLine(text)) =>
        IF \E i \in 1..Len(text) : ~IsSpace(text[i])
        THEN /\ Len(chunks) = 1
             /\ chunks[1].content = Strip(text)
             /\ chunks[1].word_count = WordCount(text)
        ELSE chunks = <<>>

\* a text of several words on two lines, with whitespace around it, longer
\* than chunk_size, returned as one chunk
C8_Witness ==
    /\ cpc = "done"
    /\ ~HasBlankLine(text)
    /\ Len(chunks) = 1
    /\ chunks[1].word_count > chunk_size
    /\ \E i \in 1..Len(chunks[1].content) : chunks[1].content[i] = "\n"
    /\ Strip(text) # text

\* the run of the example has returned
ExampleDone ==
    /\ cpc = "done"
    /\ text = Example.text
    /\ chunk_size = Example.chunk_size
    /\ overlap = Example.overlap

\* C9 as stated: on the example (chunk_size 6, overlap 3) the first chunk
\* is the first two paragraphs with word_count 8, and the second chunk
\* starts with the last paragraph of chunk 1 if that has at most 3 words
\* and otherwise starts fresh with "Para three.".
C9_ExampleAsStated ==
    ExampleDone =>
        /\ Len(chunks) >= 2
        /\ chunks[1] = [content |-> BlankLineJoin(<<ParaOne, ParaTwo>>),
                        word_count |-> 8]
        /\ LET ps == SplitParagraphs(chunks[2].content)
           IN  IF WordCount(ParaTwo) <= 3
               THEN ps[1] = ParaTwo
               ELSE ps[1] = ParaThree

\* C9 as amended: on the example the first chunk is the first paragraph
\* alone with word_count 4 (4 + 4 > 6 closes it before the second is
\* added); its last paragraph has 4 > 3 words, so the second chunk starts
\* fresh with "Para two word word." and is the second and third paragraphs
\* with word_count 6; there is no third chunk.
C9_ExampleAsComputed ==
    ExampleDone =>
        /\ chunks = << [content |-> ParaOne, word_count |-> 4],
                       [content |-> BlankLineJoin(<<ParaTwo, ParaThree>>),
                        word_count |-> 6] >>
        /\ ~Carried(2)

\* the example has been chunked
C9_Witness == ExampleDone /\ Len(chunks) = 2

\* the word counts of the paragraphs ps, summed
RECURSIVE SumWords(_)
SumWords(ps) ==
    IF ps = <<>> THEN 0 ELSE WordCount(ps[1]) + SumWords(Tail(ps))

\* C11: every chunk's word_count is the sum of the word counts of the
\* paragraphs its content is made of; a chunk of more than chunk_size
\* words is one paragraph, or two paragraphs of which the first was
\* carried forward from the chunk before it and has at most overlap words;
\* a chunk of three or more paragraphs has at most chunk_size words.
C11_SizeBound ==
    /\ IxFaithful
    /\ \A k \in 1..Len(chunks) :
          LET ps == ParasAt(chunk_ix[k])
          IN  /\ ps = SplitParagraphs(chunks[k].content)
              /\ chunks[k].word_count = SumWords(ps)
              /\ chunks[k].word_count > chunk_size =>
                    \/ Len(ps) = 1
                    \/ /\ Len(ps) = 2
                       /\ Carried(k)
                       /\ WordCount(ps[1]) <= overlap
              /\ Len(ps) >= 3 => chunks[k].word_count <= chunk_size

\* chunk_text has returned a chunk of three paragraphs or more and a chunk
\* of more than chunk_size words made of a carried paragraph and one more
C11_Witness ==
    /\ cpc = "done"
    /\ chunk_size > 0
    /\ \E k \in 1..Len(chunks) : Len(chunk_ix[k]) >= 3
    /\ \E k \in 2..Len(chunks) :
          /\ chunks[k].word_count > chunk_size
          /\ Len(chunk_ix[k]) = 2
          /\ Carried(k)

---------------------------------------------------------------------------
(* Properties of the batch driver.                                         *)

\* The ids id(hash(bytes), i) for lo <= i < hi.  PointId numbers the ids
\* of one file consecutively, PointId(h, i) = PointId(h, 0) + i, so they
\* are the numbers from PointId(h, lo) to PointId(h, hi - 1).
IdsOfFile(bytes, lo, hi) ==
    PointId(FileHash(bytes), lo)..PointId(FileHash(bytes), hi - 1)

\* the ids a run of ingest_to_qdrant builds: id(hash(file bytes), i) for
\* 0 <= i < number of chunks
RunIds(r) == IdsOfFile(r.bytes, 0, r.n)

AllRuns == {runs[k] : k \in 1..Len(runs)}

\* the ids of the runs rs, united
RECURSIVE IdsOf(_)
IdsOf(rs) == IF rs = <<>> THEN {} ELSE RunIds(rs[1]) \cup IdsOf(Tail(rs))

\* the runs that have returned their count to process_file
ReturnedRuns ==
    {r \in AllRuns : r.file <= Len(results) /\ results[r.file].status = "success"}

\* the client.upsert calls made for file f, in order
RECURSIVE CallsOf(_, _)
CallsOf(cs, f) ==
    IF cs = <<>> THEN <<>>
    ELSE (IF cs[1].file = f THEN <<cs[1]>> ELSE <<>>) \o CallsOf(Tail(cs), f)

\* the chunk counts of the results of status success, summed
RECURSIVE SuccessChunks(_)
SuccessChunks(rs) ==
    IF rs = <<>> THEN 0
    ELSE (IF rs[1].status = "success" THEN rs[1].chunks ELSE 0)
         + SuccessChunks(Tail(rs))

\* C5: point ids are a function of (file bytes, chunk index) alone and an
\* upsert deletes nothing: the ids stored are those of the runs performed.
\* Every returned run has all its ids id(hash(bytes), i), 0 <= i < n,
\* stored, whatever was ingested after it, and nothing is stored but ids
\* of the runs made; so once every run made has returned, the ids stored
\* are exactly the union of the runs' ids.  (A run whose upsert raised
\* has stored the ids of its earlier batches only: see C10.)
C5_StoredIds ==
    /\ \A r \in ReturnedRuns : RunIds(r) \subseteq stored
    /\ stored \subseteq IdsOf(runs)
    /\ ReturnedRuns = AllRuns => stored = IdsOf(runs)

\* a file was ingested, then a modified version of it with fewer chunks:
\* both returned, and the ids of both versions are stored
C5_Witness ==
    /\ mpc = "summary"
    /\ Len(runs) = 2
    /\ ReturnedRuns = AllRuns
    /\ runs[1].bytes # runs[2].bytes
    /\ runs[1].n > runs[2].n
    /\ stored = RunIds(runs[1]) \cup RunIds(runs[2])
    /\ Cardinality(stored) = runs[1].n + runs[2].n

\* C6: once a list of files is collected, no failure on a single file (a
\* missing parsing library included) aborts the run: main ends at the
\* summary with exit code 0 and one result per file, in order, each of
\* status success, empty or error.
C6_BatchNeverAborts ==
    (files # <<>> /\ mpc \in {"summary", "exited"}) =>
        /\ mpc = "summary"
        /\ exit_code = 0
        /\ Len(results) = Len(files)
        /\ \A i \in 1..Len(results) :
              /\ results[i].file = i
              /\ results[i].status \in {"success", "empty", "error"}

\* C10: within one ingest_to_qdrant call the batches are consecutive, of
\* at most BatchSize points, in index order, each point in exactly one
\* batch; a failed upsert is the call's last (no later batch, no retry),
\* the batches before it stay stored, and the driver records the file as
\* an error without a chunk count, so that the summary's total leaves out
\* the points that were stored.
C10_Batches ==
    /\ \A f \in 1..Len(files) :
          LET cs == CallsOf(calls, f)
          IN  /\ \A k \in 1..Len(cs) :
                    /\ cs[k].lo = (k - 1) * BatchSize
                    /\ cs[k].hi = Min(cs[k].lo + BatchSize, cs[k].n)
                    /\ cs[k].hi - cs[k].lo \in 1..BatchSize
                    /\ k < Len(cs) => cs[k].ok
                    /\ ~cs[k].ok =>
                          IdsOfFile(files[f].bytes, 0, cs[k].lo) \subseteq stored
              /\ f <= Len(results) =>
                    IF \E k \in 1..Len(cs) : ~cs[k].ok
                    THEN /\ results[f].status = "error"
                         /\ "chunks" \notin DOMAIN results[f]
                    ELSE results[f].status = "success" =>
                            /\ cs # <<>>
                            /\ Last(cs).hi = Last(cs).n
                            /\ results[f].chunks = Last(cs).n
    /\ mpc = "summary" => summary.total_chunks = SuccessChunks(results)

\* the second batch of a file failed: its first batch is stored, the file
\* is recorded as an error, and the summary counts no chunk at all
C10_Witness ==
    /\ mpc = "summary"
    /\ Len(files) = 1
    /\ Len(calls) = 2
    /\ calls[1].ok /\ ~calls[2].ok
    /\ Cardinality(stored) = BatchSize
    /\ results[1].status = "error"
    /\ summary.total_chunks = 0

---------------------------------------------------------------------------
(* Properties of the trace forwarder.                                      *)

\* C7: the trace forwarder never fails its caller.  Whatever stdin holds
\* (nothing, whitespace, malformed JSON, a JSON value that is no object,
\* the empty object, a full record), whatever the two key variables hold
\* and whichever call of the tracing client raises, the process writes no
\* output, never stops before its end, and ends with exit code 0; and when
\* either key is unset or empty no call of the tracing client is made.
C7_NeverFailsCaller ==
    /\ output = <<>>
    /\ trace_exit \in {-1, 0}
    /\ tpc = "done" <=> trace_exit = 0
    /\ tpc \notin {"idle", "done"} => ENABLED NextTrace
    /\ (~Truthy(public_key) \/ ~Truthy(secret_key)) => backend_calls = <<>>

\* a record that is no use to parse_tool_data arrived with both keys set:
\* the client was constructed, the AttributeError was swallowed, and the
\* process ended with exit code 0
C7_Witness ==
    /\ tpc = "done"
    /\ trace_exit = 0
    /\ Strip(stdin) = <<"[1]">>
    /\ stdin # Strip(stdin)
    /\ Truthy(public_key) /\ Truthy(secret_key)
    /\ client_fails = "flush"
    /\ backend_calls = <<"Langfuse">>
    /\ output = <<>>

===========================================================================
